---------------------------- MODULE Spec2Model ----------------------------
(***************************************************************************)
(* A model of django-dynamic-data: the boolean coercion of utils.py, the   *)
(* field-kind registry and option schemas of formfields.py and the         *)
(* FieldDefinition bridge (BaseFieldModel) of models.py.                   *)
(*                                                                         *)
(* Python values are records [t |-> <type name>, v |-> <payload>]; the tag *)
(* t is what type(x) returns.  A float's payload is twice its value, so    *)
(* that 0.5 steps stay integers.  Library functions (json.loads, int,      *)
(* slugify, str ordering) are given by what they return on the inputs the  *)
(* model enumerates.                                                       *)
(***************************************************************************)
EXTENDS Integers, Sequences, FiniteSets, TLC

VARIABLES
    pb_value,   \* utils.parse_bool_value: the argument
    pb_code,    \* utils.parse_bool_value: the returned code, NoCode before the call
    _fields,    \* DynamicFormFieldRegistry._fields, a dict in insertion order
    reg_last,   \* the last registry call: what it was given and how it ended
    field,      \* a BaseDynamicFormField instance
    opt_last,   \* the last set_options or get_initial_value call on field
    table,      \* the rows of FieldModel, by id
    inst,       \* the BaseFieldModel instance in memory, PyNone if none
    pc,         \* where the request is: idle, ready (an instance at hand), loop, post
    frame,      \* save() under way: its local name, and what it did so far
    save_last,  \* the last save() that returned or raised
    quota,      \* how many more instances may be created
    clean,      \* the instance was saved and not touched since
    concrete_classes,   \* get_base_model().getConcreteClasses()
    bridge_last \* the last read operation called on inst

bool_vars == <<pb_value, pb_code>>
reg_vars  == <<_fields, reg_last>>
opt_vars  == <<field, opt_last>>
save_vars == <<table, inst, pc, frame, save_last, quota, clean, concrete_classes,
               bridge_last>>
vars == <<pb_value, pb_code, _fields, reg_last, field, opt_last,
          table, inst, pc, frame, save_last, quota, clean, concrete_classes,
          bridge_last>>

(***************************************************************************)
(* Bounds of the model.                                                    *)
(***************************************************************************)
MaxInt == 12        \* integers and floats fed to parse_bool_value: -MaxInt..MaxInt
MaxKwargs == 2      \* keyword arguments of one set_options call
MaxRecords == 2     \* instances created in a run

(***************************************************************************)
(* Python values.                                                          *)
(***************************************************************************)
PyNone     == [t |-> "NoneType", v |-> 0]
PyBool(b)  == [t |-> "bool", v |-> b]
PyInt(n)   == [t |-> "int", v |-> n]
PyFloat2(h) == [t |-> "float", v |-> h]     \* the float h/2
PyStr(s)   == [t |-> "str", v |-> s]
PyList(q)  == [t |-> "list", v |-> q]
PyDict(f)  == [t |-> "dict", v |-> f]

IsNumber(x) == x.t \in {"bool", "int", "float"}

\* Twice the numeric value of a bool, int or float.
Num2(x) ==
    CASE x.t = "bool"  -> IF x.v THEN 2 ELSE 0
      [] x.t = "int"   -> 2 * x.v
      [] x.t = "float" -> x.v

\* Python's ==: numbers compare by value across bool, int and float;
\* everything else only within its own type.
RECURSIVE PyEq(_, _)
PyEq(a, b) ==
    IF IsNumber(a) /\ IsNumber(b) THEN Num2(a) = Num2(b)
    ELSE IF a.t # b.t THEN FALSE
    ELSE IF a.t = "list"
         THEN /\ Len(a.v) = Len(b.v)
              /\ \A i \in 1..Len(a.v) : PyEq(a.v[i], b.v[i])
    ELSE a = b

(***************************************************************************)
(* A dict is the sequence of its <<key, value>> items, keys distinct, in   *)
(* insertion order.                                                        *)
(***************************************************************************)
DictHas(d, key) == \E i \in 1..Len(d) : d[i][1] = key

DictIndex(d, key) == CHOOSE i \in 1..Len(d) : d[i][1] = key

\* d.get(key, default)
DictGet(d, key, default) ==
    IF DictHas(d, key) THEN d[DictIndex(d, key)][2] ELSE default

\* d[key] = value: a key already there keeps its place.
DictSet(d, key, value) ==
    IF DictHas(d, key)
    THEN [d EXCEPT ![DictIndex(d, key)] = <<key, value>>]
    ELSE Append(d, <<key, value>>)

\* del d[key]
DictDel(d, key) == SelectSeq(d, LAMBDA item : item[1] # key)

DictKeys(d) == {d[i][1] : i \in 1..Len(d)}

\* Equality of dicts: the same keys with the same values, in any order.
DictSame(d, e) ==
    /\ DictKeys(d) = DictKeys(e)
    /\ \A k \in DictKeys(d) : DictGet(d, k, PyNone) = DictGet(e, k, PyNone)


(***************************************************************************)
(* utils.py                                                                *)
(***************************************************************************)
\* The mutant: loose equality only, without the type test.
in_exact_equal_loose(value, array) ==
    \E i \in 1..Len(array) : PyEq(array[i], value)

in_exact_equal(value, array) ==
    \E i \in 1..Len(array) : array[i].t = value.t /\ PyEq(array[i], value)

parse_bool_value(value) ==
    IF in_exact_equal(value, <<PyBool(TRUE), PyStr("True"), PyStr("true"),
                               PyInt(3), PyStr("3")>>) THEN 3
    ELSE IF in_exact_equal(value, <<PyBool(FALSE), PyStr("False"), PyStr("false"),
                                    PyInt(2), PyStr("2")>>) THEN 2
    ELSE IF in_exact_equal(value, <<PyNone, PyStr(""), PyInt(1), PyStr("1")>>) THEN 1
    ELSE 0

NoCode == -1

\* No call made yet.
NoCall == [op |-> "none"]

BoolInputs ==
    {PyBool(TRUE), PyBool(FALSE), PyNone}
    \cup {PyInt(n) : n \in -MaxInt..MaxInt}
    \cup {PyFloat2(h) : h \in -MaxInt..MaxInt}
    \cup {PyStr(s) : s \in {"True", "true", "TRUE", "False", "false", "FALSE", "",
                            "0", "1", "2", "3", "4", "yes", "no", "None", "3.0", " 3"}}
    \cup {PyList(<<>>), PyList(<<PyInt(3)>>), PyList(<<PyBool(TRUE)>>)}

Coerce ==
    /\ pb_code = NoCode
    /\ pb_code' = parse_bool_value(pb_value)
    /\ UNCHANGED pb_value
    /\ UNCHANGED <<reg_vars, opt_vars, save_vars>>

(***************************************************************************)
(* formfields.py: classes.  A class is [module, name, serial]; serial      *)
(* tells apart two classes defined under the same module and name.         *)
(***************************************************************************)
FormfieldsModule == "dynamic_data.formfields"

Builtin(name) == [module |-> FormfieldsModule, name |-> name, serial |-> 0]

BaseDynamicFormField == Builtin("BaseDynamicFormField")
BooleanField         == Builtin("BooleanField")
ChoiceField          == Builtin("ChoiceField")
MultipleChoiceField  == Builtin("MultipleChoiceField")
DateField            == Builtin("DateField")
DateTimeField        == Builtin("DateTimeField")
EmailField           == Builtin("EmailField")
IntegerField         == Builtin("IntegerField")
FloatField           == Builtin("FloatField")
MultiLineTextField   == Builtin("MultiLineTextField")
SingleLineTextField  == Builtin("SingleLineTextField")
TimeField            == Builtin("TimeField")
SystemField          == Builtin("SystemField")
ComponentField       == Builtin("ComponentField")
SubtitleField        == Builtin("SubtitleField")

\* Classes of a host application: two field kinds defined at different times
\* under one name, a kind named like the built-in System kind in another
\* module, and a class that is no field kind.
ColorField       == [module |-> "app.fields", name |-> "ColorField", serial |-> 0]
ColorFieldAgain  == [module |-> "app.fields", name |-> "ColorField", serial |-> 1]
HostSystemField  == [module |-> "sitehub.dynamic.formfields", name |-> "SystemField",
                     serial |-> 0]
DictClass        == [module |-> "builtins", name |-> "dict", serial |-> 0]

\* The direct base class; PyNone for a class outside the hierarchy.
BaseOf(cls) ==
    IF cls = MultipleChoiceField THEN ChoiceField
    ELSE IF cls = BaseDynamicFormField \/ cls = DictClass THEN PyNone
    ELSE BaseDynamicFormField

\* issubclass(cls, BaseDynamicFormField)
RECURSIVE IsFieldKind(_)
IsFieldKind(cls) ==
    IF cls = BaseDynamicFormField THEN TRUE
    ELSE IF BaseOf(cls) = PyNone THEN FALSE
    ELSE IsFieldKind(BaseOf(cls))

\* The class attribute display_label, "" where the class leaves it None.
display_label(cls) ==
    IF cls.module # FormfieldsModule THEN ""
    ELSE CASE cls.name = "BooleanField"        -> "Boolean"
           [] cls.name = "ChoiceField"         -> "Choices"
           [] cls.name = "MultipleChoiceField" -> "Multiple Choices"
           [] cls.name = "DateField"           -> "Date"
           [] cls.name = "DateTimeField"       -> "Date and Time"
           [] cls.name = "EmailField"          -> "Email"
           [] cls.name = "IntegerField"        -> "Integer"
           [] cls.name = "FloatField"          -> "Float"
           [] cls.name = "MultiLineTextField"  -> "Multi Line Text"
           [] cls.name = "SingleLineTextField" -> "Single Line Text"
           [] cls.name = "TimeField"           -> "Time"
           [] cls.name = "SystemField"         -> "System"
           [] cls.name = "ComponentField"      -> "Component"
           [] cls.name = "SubtitleField"       -> "Subtitle"
           [] OTHER                            -> ""

\* Strips a trailing 'Field' and puts a blank before each run of capitals.
format_display_label(cls_name) ==
    CASE cls_name = "ColorField"           -> "Color"
      [] cls_name = "SystemField"          -> "System"
      [] cls_name = "BaseDynamicFormField" -> "Base Dynamic Form"
      [] OTHER                             -> cls_name

get_display_label(cls) ==
    IF display_label(cls) # "" THEN display_label(cls)
    ELSE format_display_label(cls.name)

(***************************************************************************)
(* Python's order of str: by code point, a proper prefix first.            *)
(***************************************************************************)
CodePoints(s) ==
    CASE s = "dynamic_data.formfields.BooleanField" ->
        <<100, 121, 110, 97, 109, 105, 99, 95, 100, 97, 116, 97, 46, 102, 111, 114, 109, 102, 105, 101, 108, 100, 115, 46, 66, 111, 111, 108, 101, 97, 110, 70, 105, 101, 108, 100>>
      [] s = "dynamic_data.formfields.ChoiceField" ->
        <<100, 121, 110, 97, 109, 105, 99, 95, 100, 97, 116, 97, 46, 102, 111, 114, 109, 102, 105, 101, 108, 100, 115, 46, 67, 104, 111, 105, 99, 101, 70, 105, 101, 108, 100>>
      [] s = "dynamic_data.formfields.MultipleChoiceField" ->
        <<100, 121, 110, 97, 109, 105, 99, 95, 100, 97, 116, 97, 46, 102, 111, 114, 109, 102, 105, 101, 108, 100, 115, 46, 77, 117, 108, 116, 105, 112, 108, 101, 67, 104, 111, 105, 99, 101, 70, 105, 101, 108, 100>>
      [] s = "dynamic_data.formfields.DateField" ->
        <<100, 121, 110, 97, 109, 105, 99, 95, 100, 97, 116, 97, 46, 102, 111, 114, 109, 102, 105, 101, 108, 100, 115, 46, 68, 97, 116, 101, 70, 105, 101, 108, 100>>
      [] s = "dynamic_data.formfields.DateTimeField" ->
        <<100, 121, 110, 97, 109, 105, 99, 95, 100, 97, 116, 97, 46, 102, 111, 114, 109, 102, 105, 101, 108, 100, 115, 46, 68, 97, 116, 101, 84, 105, 109, 101, 70, 105, 101, 108, 100>>
      [] s = "dynamic_data.formfields.EmailField" ->
        <<100, 121, 110, 97, 109, 105, 99, 95, 100, 97, 116, 97, 46, 102, 111, 114, 109, 102, 105, 101, 108, 100, 115, 46, 69, 109, 97, 105, 108, 70, 105, 101, 108, 100>>
      [] s = "dynamic_data.formfields.IntegerField" ->
        <<100, 121, 110, 97, 109, 105, 99, 95, 100, 97, 116, 97, 46, 102, 111, 114, 109, 102, 105, 101, 108, 100, 115, 46, 73, 110, 116, 101, 103, 101, 114, 70, 105, 101, 108, 100>>
      [] s = "dynamic_data.formfields.FloatField" ->
        <<100, 121, 110, 97, 109, 105, 99, 95, 100, 97, 116, 97, 46, 102, 111, 114, 109, 102, 105, 101, 108, 100, 115, 46, 70, 108, 111, 97, 116, 70, 105, 101, 108, 100>>
      [] s = "dynamic_data.formfields.MultiLineTextField" ->
        <<100, 121, 110, 97, 109, 105, 99, 95, 100, 97, 116, 97, 46, 102, 111, 114, 109, 102, 105, 101, 108, 100, 115, 46, 77, 117, 108, 116, 105, 76, 105, 110, 101, 84, 101, 120, 116, 70, 105, 101, 108, 100>>
      [] s = "dynamic_data.formfields.SingleLineTextField" ->
        <<100, 121, 110, 97, 109, 105, 99, 95, 100, 97, 116, 97, 46, 102, 111, 114, 109, 102, 105, 101, 108, 100, 115, 46, 83, 105, 110, 103, 108, 101, 76, 105, 110, 101, 84, 101, 120, 116, 70, 105, 101, 108, 100>>
      [] s = "dynamic_data.formfields.TimeField" ->
        <<100, 121, 110, 97, 109, 105, 99, 95, 100, 97, 116, 97, 46, 102, 111, 114, 109, 102, 105, 101, 108, 100, 115, 46, 84, 105, 109, 101, 70, 105, 101, 108, 100>>
      [] s = "dynamic_data.formfields.SystemField" ->
        <<100, 121, 110, 97, 109, 105, 99, 95, 100, 97, 116, 97, 46, 102, 111, 114, 109, 102, 105, 101, 108, 100, 115, 46, 83, 121, 115, 116, 101, 109, 70, 105, 101, 108, 100>>
      [] s = "dynamic_data.formfields.ComponentField" ->
        <<100, 121, 110, 97, 109, 105, 99, 95, 100, 97, 116, 97, 46, 102, 111, 114, 109, 102, 105, 101, 108, 100, 115, 46, 67, 111, 109, 112, 111, 110, 101, 110, 116, 70, 105, 101, 108, 100>>
      [] s = "dynamic_data.formfields.SubtitleField" ->
        <<100, 121, 110, 97, 109, 105, 99, 95, 100, 97, 116, 97, 46, 102, 111, 114, 109, 102, 105, 101, 108, 100, 115, 46, 83, 117, 98, 116, 105, 116, 108, 101, 70, 105, 101, 108, 100>>
      [] s = "sitehub.dynamic.formfields.SystemField" ->
        <<115, 105, 116, 101, 104, 117, 98, 46, 100, 121, 110, 97, 109, 105, 99, 46, 102, 111, 114, 109, 102, 105, 101, 108, 100, 115, 46, 83, 121, 115, 116, 101, 109, 70, 105, 101, 108, 100>>
      [] s = "app.fields.ColorField" ->
        <<97, 112, 112, 46, 102, 105, 101, 108, 100, 115, 46, 67, 111, 108, 111, 114, 70, 105, 101, 108, 100>>
      [] s = "dynamic_data.formfields.BaseDynamicFormField" ->
        <<100, 121, 110, 97, 109, 105, 99, 95, 100, 97, 116, 97, 46, 102, 111, 114, 109, 102, 105, 101, 108, 100, 115, 46, 66, 97, 115, 101, 68, 121, 110, 97, 109, 105, 99, 70, 111, 114, 109, 70, 105, 101, 108, 100>>

SeqLess(a, b) ==
    LET n    == IF Len(a) < Len(b) THEN Len(a) ELSE Len(b)
        diff == {i \in 1..n : a[i] # b[i]}
        k    == CHOOSE i \in diff : \A j \in diff : i <= j
    IN  IF diff = {} THEN Len(a) < Len(b) ELSE a[k] < b[k]

StrLess(a, b) == SeqLess(CodePoints(a), CodePoints(b))

(***************************************************************************)
(* formfields.py: DynamicFormFieldRegistry.  _fields is the dict of        *)
(* <<key, cls>> items.                                                     *)
(***************************************************************************)
KeyOf(cls) == cls.module \o "." \o cls.name

registry_get(fields, key) == DictGet(fields, key, PyNone)

\* The mutant: the items in insertion order.
sorted_items_unsorted(fields) == fields

\* sorted(self._fields.items()): the keys are distinct, so they decide the order.
sorted_items(fields) ==
    LET n    == Len(fields)
        rank == [j \in 1..n |->
                    1 + Cardinality({i \in 1..n : StrLess(fields[i][1], fields[j][1])})]
    IN  [i \in 1..n |-> fields[CHOOSE j \in 1..n : rank[j] = i]]

registry_get_all(fields) ==
    LET items == sorted_items(fields)
    IN  [i \in 1..Len(items) |->
            [value |-> items[i][1], name |-> get_display_label(items[i][2])]]

registry_get_as_choices(fields) ==
    LET items == sorted_items(fields)
    IN  [i \in 1..Len(items) |-> <<items[i][1], get_display_label(items[i][2])>>]

\* The registry once formfields.py is imported: the decorated classes in
\* the order of their definitions.
RegisteredAtImport ==
    [i \in 1..14 |->
        LET cls == <<BooleanField, ChoiceField, MultipleChoiceField, DateField,
                     DateTimeField, EmailField, IntegerField, FloatField,
                     MultiLineTextField, SingleLineTextField, TimeField, SystemField,
                     ComponentField, SubtitleField>>[i]
        IN  <<KeyOf(cls), cls>>]

RegisterInputs ==
    {BooleanField, ColorField, ColorFieldAgain, HostSystemField, DictClass}

UnregisterInputs ==
    {KeyOf(c) : c \in RegisterInputs \ {DictClass}} \cup {"no.such.Kind"}

register(cls) ==
    /\ IF ~IsFieldKind(cls)
       THEN /\ reg_last' = [op |-> "register", cls |-> cls, raised |-> "ValueError",
                            before |-> _fields]
            /\ UNCHANGED _fields
       ELSE /\ _fields' = DictSet(_fields, KeyOf(cls), cls)
            /\ reg_last' = [op |-> "register", cls |-> cls, raised |-> "",
                            before |-> _fields]
    /\ UNCHANGED <<bool_vars, opt_vars, save_vars>>

unregister(key) ==
    /\ _fields' = IF DictHas(_fields, key) THEN DictDel(_fields, key) ELSE _fields
    /\ reg_last' = [op |-> "unregister", key |-> key, raised |-> "",
                    before |-> _fields]
    /\ UNCHANGED <<bool_vars, opt_vars, save_vars>>

Register == \E cls \in RegisterInputs : register(cls)

Unregister == \E key \in UnregisterInputs : unregister(key)

(***************************************************************************)
(* formfields.py: option schemas.  An option is [declared, value]: what    *)
(* the Meta class declares as its type (a type, or a list of types) and    *)
(* its current value; the form field class a Meta entry names third is     *)
(* never read.  _meta is the dict of the options.                          *)
(***************************************************************************)
TypeObj(name) == [t |-> "type", v |-> name]

Opt(declared, default) == [declared |-> declared, value |-> default]

NoMeta == [present |-> FALSE, _exclude |-> {}, attrs |-> <<>>]

Meta(exclude, attrs) == [present |-> TRUE, _exclude |-> exclude, attrs |-> attrs]

LocalizeMeta(default) ==
    Meta({}, <<<<"localize", Opt(TypeObj("bool"), PyBool(default))>>>>)

\* The inner class Meta of a class body: _exclude and its public attributes.
OwnMeta(cls) ==
    IF cls.module # FormfieldsModule THEN NoMeta
    ELSE CASE cls.name = "BaseDynamicFormField" ->
                Meta({}, <<<<"help_text", Opt(TypeObj("str"), PyStr(""))>>,
                           <<"required", Opt(TypeObj("bool"), PyBool(FALSE))>>>>)
           [] cls.name = "BooleanField" ->
                Meta({"required"},
                     <<<<"has_comment", Opt(TypeObj("bool"), PyBool(FALSE))>>,
                       <<"not_avaliable", Opt(TypeObj("bool"), PyBool(FALSE))>>>>)
           [] cls.name = "ChoiceField" ->
                Meta({}, <<<<"choices",
                             Opt(PyList(<<TypeObj("list"), TypeObj("str")>>),
                                 PyStr(""))>>>>)
           [] cls.name = "DateField"     -> LocalizeMeta(TRUE)
           [] cls.name = "DateTimeField" -> LocalizeMeta(TRUE)
           [] cls.name = "TimeField"     -> LocalizeMeta(TRUE)
           [] cls.name = "IntegerField" ->
                Meta({}, <<<<"localize", Opt(TypeObj("bool"), PyBool(FALSE))>>,
                           <<"max_value", Opt(TypeObj("int"), PyNone)>>,
                           <<"min_value", Opt(TypeObj("int"), PyNone)>>,
                           <<"slide", Opt(TypeObj("bool"), PyBool(FALSE))>>>>)
           [] cls.name = "FloatField" ->
                Meta({}, <<<<"localize", Opt(TypeObj("bool"), PyBool(FALSE))>>,
                           <<"max_value", Opt(TypeObj("int"), PyNone)>>,
                           <<"min_value", Opt(TypeObj("int"), PyNone)>>>>)
           [] cls.name = "SingleLineTextField" ->
                Meta({}, <<<<"max_length", Opt(TypeObj("int"), PyNone)>>,
                           <<"min_length", Opt(TypeObj("int"), PyNone)>>>>)
           [] cls.name = "SystemField"    -> Meta({"required"}, <<>>)
           [] cls.name = "ComponentField" -> Meta({"required"}, <<>>)
           [] cls.name = "SubtitleField"  -> Meta({"required", "help_text"}, <<>>)
           [] OTHER -> NoMeta

\* opts[k] = v for every item of attrs whose key is not excluded.
RECURSIVE CopyNotExcluded(_, _, _)
CopyNotExcluded(opts, attrs, excludes) ==
    IF attrs = <<>> THEN opts
    ELSE CopyNotExcluded(
             IF Head(attrs)[1] \in excludes THEN opts
             ELSE DictSet(opts, Head(attrs)[1], Head(attrs)[2]),
             Tail(attrs), excludes)

\* The mutant: a Meta that excludes nothing.
BaseCheckMetaclass_new_no_exclude(super_opts, meta) ==
    IF meta.present
    THEN CopyNotExcluded(CopyNotExcluded(<<>>, super_opts, {}), meta.attrs, {})
    ELSE super_opts

\* BaseCheckMetaclass.__new__: the _meta of a new class, from the _meta it
\* inherits and its own Meta.
BaseCheckMetaclass_new(super_opts, meta) ==
    IF meta.present
    THEN CopyNotExcluded(CopyNotExcluded(<<>>, super_opts, meta._exclude),
                         meta.attrs, meta._exclude)
    ELSE super_opts

\* cls._meta
RECURSIVE ClassMeta(_)
ClassMeta(cls) ==
    BaseCheckMetaclass_new(
        IF BaseOf(cls) = PyNone THEN <<>> ELSE ClassMeta(BaseOf(cls)),
        OwnMeta(cls))

\* The mutant: isinstance, under which a bool is an int.
type_in_expected_isinstance(value, declared) ==
    LET expected_types == IF declared.t \notin {"list", "tuple"}
                          THEN <<declared>> ELSE declared.v
    IN  \E i \in 1..Len(expected_types) :
            \/ expected_types[i].v = value.t
            \/ expected_types[i].v = "int" /\ value.t = "bool"

\* type(value) in expected_types, a declared single type made a list first
type_in_expected(value, declared) ==
    LET expected_types == IF declared.t \notin {"list", "tuple"}
                          THEN <<declared>> ELSE declared.v
    IN  \E i \in 1..Len(expected_types) : expected_types[i].v = value.t

\* BaseDynamicFormField.set_options: [raised, options]; an option assigned
\* before the one that raises stays assigned.
RECURSIVE set_options(_, _)
set_options(options, kwargs) ==
    IF kwargs = <<>> THEN [raised |-> "", options |-> options]
    ELSE LET key   == Head(kwargs)[1]
             value == Head(kwargs)[2]
         IN  IF ~DictHas(options, key)
             THEN [raised |-> "KeyError", options |-> options]
             ELSE IF /\ ~type_in_expected(value, DictGet(options, key, PyNone).declared)
                     /\ value # PyNone
             THEN [raised |-> "TypeError", options |-> options]
             ELSE set_options(
                      DictSet(options, key,
                              [DictGet(options, key, PyNone) EXCEPT !.value = value]),
                      Tail(kwargs))

InitParams == {"name", "label", "value", "widget_attrs"}

\* cls(**kwargs): __new__ copies the class's _meta, __init__ takes name,
\* label, value and widget_attrs and hands the rest to set_options.
\* [raised, field].
NewField(cls, kwargs) ==
    IF ~DictHas(kwargs, "name") \/ ~DictHas(kwargs, "label")
    THEN [raised |-> "TypeError", field |-> PyNone]
    ELSE LET rest == SelectSeq(kwargs, LAMBDA item : item[1] \notin InitParams)
             set  == set_options(ClassMeta(cls), rest)
         IN  [raised |-> set.raised,
              field  |-> IF set.raised # "" THEN PyNone
                         ELSE [cls     |-> cls,
                               name    |-> DictGet(kwargs, "name", PyNone),
                               label   |-> DictGet(kwargs, "label", PyNone),
                               value   |-> DictGet(kwargs, "value", PyNone),
                               options |-> set.options]]

OptionKinds == {BooleanField, ChoiceField, IntegerField}

OptionKeys == {"required", "choices", "max_value"}

OptionValues == {PyNone, PyBool(TRUE), PyInt(5), PyStr("x")}

\* The keyword arguments of a call: up to MaxKwargs of them, keys distinct.
KwargsInputs ==
    {kw \in UNION {[1..n -> OptionKeys \X OptionValues] : n \in 1..MaxKwargs} :
        \A i, j \in 1..Len(kw) : i # j => kw[i][1] # kw[j][1]}

OptionInstances ==
    {NewField(cls, <<<<"name", PyStr("f")>>, <<"label", PyStr("F")>>>>).field :
        cls \in OptionKinds}

SetOptions ==
    \E kwargs \in KwargsInputs :
        LET set == set_options(field.options, kwargs)
        IN  /\ field' = [field EXCEPT !.options = set.options]
            /\ opt_last' = [op |-> "set_options", kwargs |-> kwargs,
                            raised |-> set.raised]
            /\ UNCHANGED <<bool_vars, reg_vars, save_vars>>

(***************************************************************************)
(* models.py: BaseFieldModel.  An instance is a record of the fields the   *)
(* methods read or write: id (0 while unsaved), company_site, model,       *)
(* label, name, field_type, options, system, visible.  FieldModel, the     *)
(* concrete model whose rows save() queries, is the sequence table, a row  *)
(* at the index that is its id.  Rows are only written by save(); what the *)
(* database itself enforces at the write is not part of the model.         *)
(***************************************************************************)
SystemFieldLiteral == "sitehub.dynamic.formfields.SystemField"

\* The model classes of the host: __name__ and the attributes hasattr finds.
SiteModel == [name |-> "Site", attrs |-> {"title", "data", "pk", "save"}]

HostModels == <<SiteModel>>

\* django.utils.text.slugify on the labels of the model.
slugify(label) ==
    CASE label = "Code"     -> "code"
      [] label = "Title"    -> "title"
      [] label = "Due Date" -> "due-date"
      [] OTHER              -> ""

\* str.replace("-", "_") on the slugs of the model.
ReplaceDash(slug) == IF slug = "due-date" THEN "due_date" ELSE slug

\* s[:n] for the strings of the model, none of them longer than n.
Prefix(s, n) == IF Len(s) <= n THEN s ELSE "..."

NameMaxLen == 120
RandLow == 1
RandHigh == 99

\* self.template: the tenant whose rows the new name is compared with.
template(self) == self.company_site

\* The mutant: model and name swapped in the filter.
collision_exists_swapped(rows, self) ==
    \E i \in 1..Len(rows) :
        /\ rows[i].company_site = template(self)
        /\ PyStr(rows[i].model) = self.name
        /\ rows[i].name = PyStr(self.model)
        /\ rows[i].id # self.id

\* FieldModel.objects.filter(company_site=self.template, model=self.model,
\*                           name=self.name).exclude(id=self.id).exists()
collision_exists(rows, self) ==
    \E i \in 1..Len(rows) :
        /\ rows[i].company_site = template(self)
        /\ rows[i].model = self.model
        /\ rows[i].name = self.name
        /\ rows[i].id # self.id

\* The mutant: the collision loop also for a persisted instance.
is_unsaved_always(self) == TRUE

\* not self.id
is_unsaved(self) == self.id = 0

\* BaseFieldModel.get_form_field_kwargs: [raised, kwargs]; kwargs IS
\* self.options, updated in place.
get_form_field_kwargs(self) ==
    IF self.options.t # "dict"
    THEN [raised |-> "AttributeError", kwargs |-> <<>>]
    ELSE [raised |-> "",
          kwargs |-> DictSet(DictSet(self.options.v, "name", self.name),
                             "label", PyStr(self.label))]

\* The class attribute is_system.
HasIsSystem(cls) == cls \in {SystemField, ComponentField}

\* BaseFieldModel.is_system: [raised, result, options], options being
\* self.options as the call leaves it.
is_system(fields, self) ==
    LET field_type_cls == registry_get(fields, self.field_type)
        kw == get_form_field_kwargs(self)
        nf == NewField(field_type_cls, kw.kwargs)
    IN  IF field_type_cls = PyNone
        THEN [raised |-> "", result |-> FALSE, options |-> self.options]
        ELSE IF kw.raised # ""
        THEN [raised |-> kw.raised, result |-> FALSE, options |-> self.options]
        ELSE [raised  |-> nf.raised,
              result  |-> nf.raised = "" /\ HasIsSystem(field_type_cls),
              options |-> PyDict(kw.kwargs)]

\* The loop over getConcreteClasses(): the instance with field_type and
\* options forced where its model natively has an attribute of its name.
RECURSIVE native_override(_, _)
native_override(classes, self) ==
    IF classes = <<>> THEN self
    ELSE native_override(
             Tail(classes),
             IF Head(classes).name = self.model /\ self.name.v \in Head(classes).attrs
             THEN [self EXCEPT !.field_type = SystemFieldLiteral,
                               !.options = PyDict(<<>>)]
             ELSE self)

Tenants == {1, 2}
Labels == {"Code", "Title"}
NewFieldTypes == {KeyOf(SingleLineTextField), KeyOf(ComponentField)}
NewOptions == {PyNone, PyDict(<<<<"max_length", PyInt(5)>>>>)}
EditedNames == {PyStr("code")}

\* The values of random.randint(RandLow, RandHigh) that the runs of Spec draw.
SampledDraws == {RandLow, RandHigh}

OtherSaveVars == <<bool_vars, reg_vars, opt_vars, bridge_last>>

\* An unsaved instance, as the administrator's form builds it.
New ==
    /\ pc = "idle"
    /\ quota > 0
    /\ \E t \in Tenants, l \in Labels, ft \in NewFieldTypes, o \in NewOptions :
           inst' = [id |-> 0, company_site |-> t, model |-> "Site", label |-> l,
                    name |-> PyNone, field_type |-> ft, options |-> o,
                    system |-> FALSE, visible |-> FALSE]
    /\ pc' = "ready"
    /\ quota' = quota - 1
    /\ clean' = FALSE
    /\ UNCHANGED <<table, frame, save_last, concrete_classes, OtherSaveVars>>

\* FieldModel.objects.get(id=...)
Load ==
    /\ pc = "idle"
    /\ \E i \in 1..Len(table) : inst' = table[i]
    /\ pc' = "ready"
    /\ clean' = FALSE
    /\ UNCHANGED <<table, frame, save_last, quota, concrete_classes, OtherSaveVars>>

\* The administrator changes the name of a loaded record.
EditName ==
    /\ pc = "ready"
    /\ inst.id # 0
    /\ \E n \in EditedNames : n # inst.name /\ inst' = [inst EXCEPT !.name = n]
    /\ clean' = FALSE
    /\ UNCHANGED <<table, pc, frame, save_last, quota, concrete_classes, OtherSaveVars>>

\* The administrator changes the kind of a loaded record.
EditFieldType ==
    /\ pc = "ready"
    /\ inst.id # 0
    /\ \E ft \in NewFieldTypes :
           ft # inst.field_type /\ inst' = [inst EXCEPT !.field_type = ft]
    /\ clean' = FALSE
    /\ UNCHANGED <<table, pc, frame, save_last, quota, concrete_classes, OtherSaveVars>>

\* The instance goes out of scope.
Drop ==
    /\ pc = "ready"
    /\ inst' = PyNone
    /\ pc' = "idle"
    /\ clean' = FALSE
    /\ UNCHANGED <<table, frame, save_last, quota, concrete_classes, OtherSaveVars>>

\* save(), up to the collision loop: the name from the label, the options
\* from None, the visibility of "code", the local name.
save_begin ==
    /\ pc = "ready"
    /\ LET named == IF inst.name = PyStr("") \/ inst.name = PyNone
                    THEN [inst EXCEPT !.name =
                             PyStr(Prefix(ReplaceDash(slugify(inst.label)), NameMaxLen))]
                    ELSE inst
           opted == IF named.options = PyNone
                    THEN [named EXCEPT !.options = PyDict(<<>>)] ELSE named
           self  == IF opted.name = PyStr("code")
                    THEN [opted EXCEPT !.visible = TRUE] ELSE opted
       IN  /\ inst' = self
           /\ frame' = [name |-> self.name, looped |-> FALSE,
                        first |-> inst.id = 0, entry_name |-> inst.name]
           /\ pc' = IF is_unsaved(self) THEN "loop" ELSE "post"
    /\ UNCHANGED <<table, save_last, quota, clean, concrete_classes, OtherSaveVars>>

\* One turn of the collision loop: the name is taken, another is drawn.
save_collision_retry(draws) ==
    /\ pc = "loop"
    /\ collision_exists(table, inst)
    /\ \E s \in draws :
           inst' = [inst EXCEPT !.name = PyStr(frame.name.v \o ToString(s))]
    /\ frame' = [frame EXCEPT !.looped = TRUE]
    /\ UNCHANGED <<table, pc, save_last, quota, clean, concrete_classes, OtherSaveVars>>

\* The collision loop ends: no other row of the group has the name.
save_collision_free ==
    /\ pc = "loop"
    /\ ~collision_exists(table, inst)
    /\ pc' = "post"
    /\ UNCHANGED <<table, inst, frame, save_last, quota, clean, concrete_classes,
                   OtherSaveVars>>

\* save(), after the collision loop: the native attributes, the system
\* flag, the write of the row.  An exception of is_system() leaves no row
\* written and the instance as it was changed so far.
save_finish ==
    /\ pc = "post"
    /\ \E forced \in {native_override(concrete_classes, inst)} :
       \E sys \in {is_system(_fields, forced)} :
       \E saved \in {[forced EXCEPT !.options = sys.options,
                                    !.system = IF sys.result THEN TRUE ELSE @,
                                    !.id = IF @ = 0 THEN Len(table) + 1 ELSE @]} :
           IF sys.raised # ""
           THEN /\ inst' = [forced EXCEPT !.options = sys.options]
                /\ save_last' = [op |-> "save", raised |-> sys.raised, id |-> inst.id,
                                 first |-> frame.first, looped |-> frame.looped,
                                 base |-> frame.name, entry_name |-> frame.entry_name,
                                 repeat |-> FALSE]
                /\ clean' = FALSE
                /\ UNCHANGED table
           ELSE /\ inst' = saved
                /\ table' = IF forced.id = 0 THEN Append(table, saved)
                            ELSE [table EXCEPT ![forced.id] = saved]
                /\ save_last' = [op |-> "save", raised |-> "", id |-> saved.id,
                                 first |-> frame.first, looped |-> frame.looped,
                                 base |-> frame.name, entry_name |-> frame.entry_name,
                                 repeat |-> clean]
                /\ clean' = TRUE
    /\ pc' = "ready"
    /\ frame' = PyNone
    /\ UNCHANGED <<quota, concrete_classes, OtherSaveVars>>

(***************************************************************************)
(* Library functions, on the inputs of the model.                          *)
(***************************************************************************)
PyTuple(q) == [t |-> "tuple", v |-> q]

\* An object with the attributes attrs (a dict from names to values).
PyObj(attrs) == [t |-> "object", v |-> attrs]

ChoicesJson == "[\"a\", \"b\", \"c\"]"
BoolCommentJson == "{\"bool\": 3, \"comment\": \"ok\"}"
BoolOnlyJson == "{\"bool\": 2}"
CommentOnlyJson == "{\"comment\": \"ok\"}"

\* json.loads: [raised, value].  Anything but a str raises TypeError, a
\* str that is no JSON text raises JSONDecodeError.
json_loads(x) ==
    IF x.t # "str" THEN [raised |-> "TypeError", value |-> PyNone]
    ELSE CASE x.v = ChoicesJson ->
                [raised |-> "", value |-> PyList(<<PyStr("a"), PyStr("b"), PyStr("c")>>)]
           [] x.v = BoolCommentJson ->
                [raised |-> "",
                 value |-> PyDict(<<<<"bool", PyInt(3)>>, <<"comment", PyStr("ok")>>>>)]
           [] x.v = BoolOnlyJson ->
                [raised |-> "", value |-> PyDict(<<<<"bool", PyInt(2)>>>>)]
           [] x.v = CommentOnlyJson ->
                [raised |-> "", value |-> PyDict(<<<<"comment", PyStr("ok")>>>>)]
           [] x.v = "[]"    -> [raised |-> "", value |-> PyList(<<>>)]
           [] x.v = "3"     -> [raised |-> "", value |-> PyInt(3)]
           [] x.v = "1"     -> [raised |-> "", value |-> PyInt(1)]
           [] x.v = "\"b\"" -> [raised |-> "", value |-> PyStr("b")]
           [] x.v = "null"  -> [raised |-> "", value |-> PyNone]
           [] OTHER         -> [raised |-> "JSONDecodeError", value |-> PyNone]

\* int(x): [raised, value].
py_int(x) ==
    CASE x.t = "int"   -> [raised |-> "", value |-> x.v]
      [] x.t = "bool"  -> [raised |-> "", value |-> IF x.v THEN 1 ELSE 0]
      [] x.t = "float" -> [raised |-> "",
                           value |-> IF x.v >= 0 THEN x.v \div 2 ELSE -((-x.v) \div 2)]
      [] x.t = "str"   ->
            CASE x.v = "0"  -> [raised |-> "", value |-> 0]
              [] x.v = "1"  -> [raised |-> "", value |-> 1]
              [] x.v = "2"  -> [raised |-> "", value |-> 2]
              [] x.v = "3"  -> [raised |-> "", value |-> 3]
              [] x.v = "7"  -> [raised |-> "", value |-> 7]
              [] x.v = "-1" -> [raised |-> "", value |-> -1]
              [] x.v = "-4" -> [raised |-> "", value |-> -4]
              [] OTHER      -> [raised |-> "ValueError", value |-> 0]
      [] OTHER -> [raised |-> "TypeError", value |-> 0]

\* seq[i] of a list: [raised, value].
py_index(q, i) ==
    IF 0 <= i /\ i < Len(q) THEN [raised |-> "", value |-> q[i + 1]]
    ELSE IF -Len(q) <= i /\ i < 0 THEN [raised |-> "", value |-> q[Len(q) + i + 1]]
    ELSE [raised |-> "IndexError", value |-> PyNone]

\* x in q, of a list q
py_in(x, q) == \E i \in 1..Len(q) : PyEq(q[i], x)

\* for row in value: [raised, items].  The strs of the model that are
\* iterated have at most one character.
py_iter(value) ==
    CASE value.t = "list" -> [raised |-> "", items |-> value.v]
      [] value.t = "dict" ->
            [raised |-> "", items |-> [i \in 1..Len(value.v) |-> PyStr(value.v[i][1])]]
      [] value.t = "str" ->
            [raised |-> "", items |-> IF value.v = "" THEN <<>> ELSE <<value>>]
      [] OTHER -> [raised |-> "TypeError", items |-> <<>>]

(***************************************************************************)
(* formfields.py: what the kinds compute.  Each gives [raised, value].     *)
(***************************************************************************)
Returns(value) == [raised |-> "", value |-> value]
Raises(exc) == [raised |-> exc, value |-> PyNone]

OptionValue(self, key) == DictGet(self.options, key, PyNone).value

\* ChoiceField.get_choices
get_choices(self, array) ==
    LET value  == OptionValue(self, "choices")
        loaded == IF value.t = "str" THEN json_loads(value) ELSE Returns(value)
        rows   == py_iter(loaded.value)
    IN  IF loaded.raised # "" THEN Returns(PyList(<<>>))
        ELSE IF array THEN Returns(loaded.value)
        ELSE IF rows.raised # "" THEN Raises(rows.raised)
        ELSE Returns(PyList([i \in 1..Len(rows.items) |->
                                PyTuple(<<rows.items[i], rows.items[i]>>)]))

\* ChoiceField.get_initial_value.  Only a list (or a dict or a str, which
\* the model does not give as choices) can be searched and indexed.
ChoiceField_get_initial_value(self) ==
    LET choices == get_choices(self, TRUE).value
        number  == py_int(self.value)
    IN  IF choices.t # "list" THEN Raises("TypeError")
        ELSE IF py_in(self.value, choices.v) THEN Returns(self.value)
        ELSE IF number.raised \in {"ValueError", "TypeError"} THEN Returns(PyNone)
        ELSE py_index(choices.v, number.value)

\* objeto.data.get(self.name)
data_get(self, objeto) ==
    IF objeto.t # "object" \/ ~DictHas(objeto.v, "data")
    THEN Raises("AttributeError")
    ELSE IF DictGet(objeto.v, "data", PyNone).t # "dict" THEN Raises("AttributeError")
    ELSE Returns(DictGet(DictGet(objeto.v, "data", PyNone).v, self.name.v, PyNone))

\* BooleanField.get_display_boolean
get_display_boolean(boolean) ==
    CASE boolean = 1 -> PyStr("N/A")
      [] boolean = 3 -> PyStr("Yes")
      [] boolean = 2 -> PyStr("No")
      [] OTHER       -> PyStr("")

\* json_obj[key]: [raised, value]
py_getitem(json_obj, key) ==
    IF json_obj.t # "dict" THEN Raises("TypeError")
    ELSE IF ~DictHas(json_obj.v, key) THEN Raises("KeyError")
    ELSE Returns(DictGet(json_obj.v, key, PyNone))

\* BooleanField.get_display
BooleanField_get_display(self, objeto) ==
    LET value    == data_get(self, objeto)
        loaded   == json_loads(value.value)
        bool     == py_getitem(loaded.value, "bool")
        comment  == py_getitem(loaded.value, "comment")
        fallback == Returns(get_display_boolean(parse_bool_value(value.value)))
        label    == get_display_boolean(parse_bool_value(bool.value))
    IN  IF value.raised # "" THEN value
        ELSE IF loaded.raised \in {"JSONDecodeError", "TypeError"} THEN fallback
        ELSE IF bool.raised = "TypeError" THEN fallback
        ELSE IF bool.raised # "" THEN bool
        ELSE IF OptionValue(self, "has_comment") \in {PyNone, PyBool(FALSE)}
        THEN Returns(label)
        ELSE IF comment.raised = "TypeError" THEN fallback
        ELSE IF comment.raised # "" THEN comment
        ELSE Returns(PyStr(label.v \o ". Comment: " \o comment.value.v))

\* ChoiceField.get_display, through get_choice_display
ChoiceField_get_display(self, objeto) ==
    LET value   == data_get(self, objeto)
        choices == get_choices(self, FALSE)
    IN  IF value.raised # "" THEN value
        ELSE IF choices.raised # "" THEN choices
        ELSE IF \E i \in 1..Len(choices.value.v) :
                    PyEq(choices.value.v[i].v[1], value.value)
        THEN Returns(value.value)
        ELSE Returns(PyNone)

\* get_display of SystemField, ComponentField and SubtitleField
attribute_get_display(self, objeto) ==
    IF objeto.t = "object" /\ DictHas(objeto.v, self.name.v)
    THEN Returns(DictGet(objeto.v, self.name.v, PyNone))
    ELSE Returns(PyNone)

\* field.get_display(objeto), by the class of field
field_get_display(self, objeto) ==
    CASE self.cls = BooleanField -> BooleanField_get_display(self, objeto)
      [] self.cls = ChoiceField  -> ChoiceField_get_display(self, objeto)
      [] self.cls \in {SystemField, ComponentField, SubtitleField} ->
            attribute_get_display(self, objeto)
      [] OTHER -> data_get(self, objeto)

\* field.get_choices(), which only the choice kinds have
field_get_choices(self) ==
    IF self.cls \in {ChoiceField, MultipleChoiceField}
    THEN get_choices(self, FALSE)
    ELSE Raises("AttributeError")

(***************************************************************************)
(* models.py: the read operations of BaseFieldModel.  Each gives           *)
(* [raised, value, options]: options is self.options as the call leaves    *)
(* it, get_form_field_kwargs having updated it.                            *)
(***************************************************************************)
\* except (AttributeError, TypeError)
Swallowed == {"AttributeError", "TypeError"}

\* field_type_cls(**self.get_form_field_kwargs()): [raised, field,
\* options].  The arguments are evaluated, and self.options updated,
\* before None is called.
build_field(fields, self) ==
    LET field_type_cls == registry_get(fields, self.field_type)
        kw == get_form_field_kwargs(self)
        nf == NewField(field_type_cls, kw.kwargs)
    IN  IF kw.raised # ""
        THEN [raised |-> kw.raised, field |-> PyNone, options |-> self.options]
        ELSE IF field_type_cls = PyNone
        THEN [raised |-> "TypeError", field |-> PyNone, options |-> PyDict(kw.kwargs)]
        ELSE [raised |-> nf.raised, field |-> nf.field, options |-> PyDict(kw.kwargs)]

\* The try statement of get_choices and of get_display: built is the
\* field, got what the method called on it gives, default what the except
\* clause returns.
try_read(built, got, default) ==
    LET exc == IF built.raised # "" THEN built.raised ELSE got.raised
    IN  IF exc = "" THEN [raised |-> "", value |-> got.value, options |-> built.options]
        ELSE IF exc \in Swallowed
        THEN [raised |-> "", value |-> default, options |-> built.options]
        ELSE [raised |-> exc, value |-> PyNone, options |-> built.options]

model_get_choices(fields, self) ==
    LET built == build_field(fields, self)
    IN  try_read(built,
                 IF built.raised = "" THEN field_get_choices(built.field) ELSE Raises(""),
                 PyList(<<>>))

model_get_display(fields, self, value) ==
    LET built == build_field(fields, self)
    IN  try_read(built,
                 IF built.raised = "" THEN field_get_display(built.field, value)
                 ELSE Raises(""),
                 PyNone)

\* The records the read operations are called on: loaded rows of kinds
\* registered or not, with option bags as an administrator or an older
\* version of the schema left them.
BridgeFieldTypes ==
    {KeyOf(BooleanField), KeyOf(ChoiceField), KeyOf(SingleLineTextField),
     KeyOf(SystemField), SystemFieldLiteral}

BridgeOptions ==
    {PyNone, PyDict(<<>>), PyDict(<<<<"has_comment", PyBool(TRUE)>>>>),
     PyDict(<<<<"choices", PyStr(ChoicesJson)>>>>),
     PyDict(<<<<"choices", PyInt(5)>>>>),
     PyDict(<<<<"colour", PyStr("red")>>>>)}

BridgeRecords ==
    {[id |-> 1, company_site |-> 1, model |-> "Site", label |-> "F",
      name |-> PyStr("f"), field_type |-> ft, options |-> o,
      system |-> FALSE, visible |-> v] :
        ft \in BridgeFieldTypes, o \in BridgeOptions, v \in BOOLEAN}

StoredValues ==
    {PyNone, PyStr(BoolCommentJson), PyStr(BoolOnlyJson), PyStr(CommentOnlyJson),
     PyStr("3"), PyInt(3), PyBool(FALSE), PyStr("b"), PyStr("x"), PyStr("[]")}

\* What get_display is given: a model instance with its data (and an
\* attribute f of its own), or a bare value.
Holders ==
    {PyObj(<<<<"data", PyDict(<<<<"f", v>>>>)>>>>) : v \in StoredValues}
    \cup {PyObj(<<<<"data", PyDict(<<>>)>>, <<"f", PyStr("native")>>>>),
          PyStr("b"), PyNone}

OtherBridgeVars ==
    <<bool_vars, reg_vars, opt_vars, table, pc, frame, save_last, quota, clean,
      concrete_classes>>

GetChoices ==
    /\ inst # PyNone
    /\ LET r == model_get_choices(_fields, inst)
       IN  /\ inst' = [inst EXCEPT !.options = r.options]
           /\ bridge_last' = [op |-> "get_choices", raised |-> r.raised,
                              value |-> r.value, arg |-> PyNone,
                              before |-> inst.options]
    /\ UNCHANGED OtherBridgeVars

GetDisplay ==
    /\ inst # PyNone
    /\ \E value \in Holders :
           LET r == model_get_display(_fields, inst, value)
           IN  /\ inst' = [inst EXCEPT !.options = r.options]
               /\ bridge_last' = [op |-> "get_display", raised |-> r.raised,
                                  value |-> r.value, arg |-> value,
                                  before |-> inst.options]
    /\ UNCHANGED OtherBridgeVars

(***************************************************************************)
(* ChoiceField.get_initial_value, called on instances of the kind.         *)
(***************************************************************************)
ChoicesInputs ==
    {PyList(<<PyStr("a"), PyStr("b"), PyStr("c")>>), PyStr(ChoicesJson),
     PyList(<<PyStr("1"), PyStr("x")>>), PyList(<<PyInt(1), PyInt(7)>>),
     PyList(<<>>), PyStr("[]"), PyStr(""), PyStr("a,b,c")}

ChoiceValues ==
    {PyNone, PyStr("a"), PyStr("b"), PyStr("x"), PyStr(""), PyStr("0"), PyStr("1"),
     PyStr("2"), PyStr("3"), PyStr("7"), PyStr("-1"), PyStr("-4"), PyInt(1), PyInt(2),
     PyInt(7), PyBool(TRUE), PyFloat2(3), PyList(<<PyStr("a")>>)}

ChoiceInstances ==
    {NewField(ChoiceField, <<<<"name", PyStr("f")>>, <<"label", PyStr("F")>>,
                             <<"value", v>>, <<"choices", c>>>>).field :
        v \in ChoiceValues, c \in ChoicesInputs}

GetInitialValue ==
    /\ opt_last = NoCall
    /\ LET r == ChoiceField_get_initial_value(field)
       IN  opt_last' = [op |-> "get_initial_value", raised |-> r.raised,
                        value |-> r.value]
    /\ UNCHANGED <<field, bool_vars, reg_vars, save_vars, bridge_last>>

(***************************************************************************)
(* formfields.py: construct.  A control is the class instantiated and the  *)
(* keyword arguments it is instantiated with.                              *)
(***************************************************************************)
MaxOverrides == 2

\* An instance of a widget class, with the arguments it was built with.
Widget(cls, args) == PyObj(<<<<"class", PyStr(cls)>>>> \o args)

\* self.get_cls(): BooleanField answers CharField, the others their cls.
get_cls(self) ==
    CASE self.cls = BooleanField         -> "django.forms.CharField"
      [] self.cls = ChoiceField          -> "django.forms.ChoiceField"
      [] self.cls = MultipleChoiceField  -> "django.forms.MultipleChoiceField"
      [] self.cls = DateField            -> "django.forms.DateField"
      [] self.cls = DateTimeField        -> "django.forms.DateTimeField"
      [] self.cls = EmailField           -> "django.forms.EmailField"
      [] self.cls = IntegerField         -> "django.forms.IntegerField"
      [] self.cls = FloatField           -> "django.forms.FloatField"
      [] self.cls = MultiLineTextField   -> "django.forms.CharField"
      [] self.cls = SingleLineTextField  -> "django.forms.CharField"
      [] self.cls = TimeField            -> "django.forms.TimeField"
      [] self.cls = SystemField          -> "django.forms.BooleanField"
      [] self.cls = ComponentField       -> "sitehub.dynamic.field.ComponentField"
      [] self.cls = SubtitleField        -> "sitehub.dynamic.field.SubtitleField"
      [] OTHER                           -> ""

\* The class attribute widget, "" for None.
class_widget(cls) ==
    CASE cls = IntegerField       -> "django.forms.NumberInput"
      [] cls = MultiLineTextField -> "django.forms.widgets.Textarea"
      [] OTHER                    -> ""

\* args[key] = val[1] for the items of options whose key is not skipped
OptionArgs(options, skipped) ==
    LET kept == SelectSeq(options, LAMBDA item : item[1] \notin skipped)
    IN  [i \in 1..Len(kept) |-> <<kept[i][1], kept[i][2].value>>]

RadioYesNo == PyList(<<PyTuple(<<PyInt(3), PyStr("Yes")>>),
                       PyTuple(<<PyInt(2), PyStr("No")>>)>>)

\* BooleanField.get_options
RadioAll == PyList(<<PyTuple(<<PyInt(1), PyStr("N/A")>>),
                     PyTuple(<<PyInt(3), PyStr("Yes")>>),
                     PyTuple(<<PyInt(2), PyStr("No")>>)>>)

Truthy(x) == x \notin {PyNone, PyBool(FALSE), PyInt(0), PyStr(""), PyList(<<>>),
                       PyDict(<<>>)}

\* BooleanField.get_kwargs: [raised, args, options]; it deletes
\* not_avaliable and has_comment from the instance's options.
BooleanField_get_kwargs(self) ==
    IF ~DictHas(self.options, "not_avaliable") \/ ~DictHas(self.options, "has_comment")
    THEN [raised |-> "KeyError", args |-> <<>>, options |-> self.options]
    ELSE LET radio  == Widget("django.forms.RadioSelect",
                              <<<<"choices",
                                  IF Truthy(OptionValue(self, "not_avaliable"))
                                  THEN RadioAll ELSE RadioYesNo>>>>)
             widget == Widget("dynamic_data.field.CommentBooleanWidget",
                              <<<<"widget", radio>>,
                                <<"has_comment", OptionValue(self, "has_comment")>>>>)
             left   == DictDel(DictDel(self.options, "not_avaliable"), "has_comment")
         IN  [raised  |-> "",
              args    |-> <<<<"widget", widget>>>> \o OptionArgs(left, {}),
              options |-> left]

\* self.get_kwargs(), by class: [raised, args, options]
get_kwargs(self) ==
    CASE self.cls = BooleanField -> BooleanField_get_kwargs(self)
      [] self.cls = IntegerField ->
            [raised |-> "", args |-> OptionArgs(self.options, {"slide"}),
             options |-> self.options]
      [] OTHER ->
            [raised |-> "", args |-> OptionArgs(self.options, {}),
             options |-> self.options]

\* self.get_widget_attrs(), of an instance built without widget_attrs
get_widget_attrs(self) ==
    IF self.cls = IntegerField /\ Truthy(OptionValue(self, "slide"))
    THEN <<<<"attrs", PyDict(<<<<"type", PyStr("range")>>>>)>>>>
    ELSE <<>>

\* str.split(","), on the values of the model
py_split(text) ==
    CASE text = "0,1" -> <<PyStr("0"), PyStr("1")>>
      [] text = "0,7" -> <<PyStr("0"), PyStr("7")>>
      [] OTHER        -> <<PyStr(text)>>

\* [f(q[1]), ...], stopping at the first that raises: [raised, value]
RECURSIVE pick_each(_, _, _)
pick_each(choices, parts, picked) ==
    IF parts = <<>> THEN Returns(PyList(picked))
    ELSE LET number == py_int(Head(parts))
             one    == py_index(choices, number.value)
         IN  IF number.raised # "" THEN Raises(number.raised)
             ELSE IF one.raised # "" THEN Raises(one.raised)
             ELSE pick_each(choices, Tail(parts), Append(picked, one.value))

\* MultipleChoiceField.get_initial_value
MultipleChoiceField_get_initial_value(self) ==
    LET choices == get_choices(self, TRUE).value
    IN  IF self.value.t = "list" THEN Returns(self.value)
        ELSE IF self.value.t # "str" THEN Returns(PyNone)
        ELSE IF choices.t # "list" THEN Raises("TypeError")
        ELSE pick_each(choices.v, py_split(self.value.v), <<>>)

\* self.get_initial_value(), by class
get_initial_value(self) ==
    CASE self.cls = ChoiceField         -> ChoiceField_get_initial_value(self)
      [] self.cls = MultipleChoiceField -> MultipleChoiceField_get_initial_value(self)
      [] OTHER                          -> Returns(self.value)

\* f_kwargs.update(kwargs)
RECURSIVE dict_update(_, _)
dict_update(d, kwargs) ==
    IF kwargs = <<>> THEN d
    ELSE dict_update(DictSet(d, Head(kwargs)[1], Head(kwargs)[2]), Tail(kwargs))

\* kwargs["required"] = False
forced_required(kwargs) == DictSet(kwargs, "required", PyBool(FALSE))

NoControl == [cls |-> "", kwargs |-> <<>>]

\* BaseDynamicFormField.construct: [raised, control, options].
BaseDynamicFormField_construct(self, kwargs) ==
    LET got      == get_kwargs(self)
        labelled == DictSet(got.args, "label", self.label)
        widgeted == IF class_widget(self.cls) = "" THEN labelled
                    ELSE DictSet(labelled, "widget",
                                 Widget(class_widget(self.cls), get_widget_attrs(self)))
        initial  == get_initial_value(self)
        f_kwargs == dict_update(DictSet(widgeted, "initial", initial.value),
                                forced_required(kwargs))
    IN  IF got.raised # ""
        THEN [raised |-> got.raised, control |-> NoControl, options |-> got.options]
        ELSE IF initial.raised # ""
        THEN [raised |-> initial.raised, control |-> NoControl, options |-> got.options]
        ELSE [raised  |-> "",
              control |-> [cls |-> get_cls(self), kwargs |-> f_kwargs],
              options |-> got.options]

\* ("", "---------") put before the choices when required is False
with_blank(self, choices) ==
    IF OptionValue(self, "required") = PyBool(FALSE)
    THEN PyList(<<PyTuple(<<PyStr(""), PyStr("---------")>>)>> \o choices.v)
    ELSE choices

\* self.construct, by class.  BooleanField, ChoiceField and
\* MultipleChoiceField hand the base method arguments of their own and
\* not the caller's.
construct(self, kwargs) ==
    CASE self.cls = BooleanField ->
            BaseDynamicFormField_construct(self, <<<<"required", PyBool(FALSE)>>>>)
      [] self.cls \in {ChoiceField, MultipleChoiceField} ->
            LET choices == get_choices(self, FALSE)
            IN  IF choices.raised # ""
                THEN [raised |-> choices.raised, control |-> NoControl,
                      options |-> self.options]
                ELSE BaseDynamicFormField_construct(
                         self,
                         <<<<"choices", IF self.cls = ChoiceField
                                        THEN with_blank(self, choices.value)
                                        ELSE choices.value>>>>)
      [] OTHER -> BaseDynamicFormField_construct(self, kwargs)

ConstructKinds ==
    {BooleanField, ChoiceField, MultipleChoiceField, IntegerField,
     SingleLineTextField, MultiLineTextField}

\* Options an administrator set, by kind.
ConstructOptions(cls) ==
    {<<>>} \cup
    CASE cls = BooleanField -> {<<<<"not_avaliable", PyBool(TRUE)>>>>}
      [] cls \in {ChoiceField, MultipleChoiceField} ->
            {<<<<"choices", PyStr(ChoicesJson)>>>>,
             <<<<"choices", PyStr(ChoicesJson)>>, <<"required", PyBool(TRUE)>>>>}
      [] cls = IntegerField -> {<<<<"slide", PyBool(TRUE)>>>>}
      [] OTHER -> {<<<<"required", PyBool(TRUE)>>>>}

ConstructValues == {PyNone, PyStr("1"), PyStr("0,1"), PyStr("7")}

ConstructInstances ==
    {NewField(cls, <<<<"name", PyStr("f")>>, <<"label", PyStr("F")>>,
                     <<"value", v>>>> \o o).field :
        <<cls, v, o>> \in
            {<<c, w, x>> \in ConstructKinds \X ConstructValues
                                 \X UNION {ConstructOptions(k) : k \in ConstructKinds} :
                x \in ConstructOptions(c)}}

OverrideKeys == {"required", "label", "help_text"}

OverrideValues == {PyBool(TRUE), PyStr("X")}

\* The caller's keyword arguments: up to MaxOverrides of them, keys distinct.
OverrideInputs ==
    {kw \in UNION {[1..n -> OverrideKeys \X OverrideValues] : n \in 0..MaxOverrides} :
        \A i, j \in 1..Len(kw) : i # j => kw[i][1] # kw[j][1]}

Construct ==
    \E kwargs \in OverrideInputs :
        LET made == construct(field, kwargs)
        IN  /\ field' = [field EXCEPT !.options = made.options]
            /\ opt_last' = [op |-> "construct", kwargs |-> kwargs,
                            raised |-> made.raised, control |-> made.control]
            /\ UNCHANGED <<bool_vars, reg_vars, save_vars>>

(***************************************************************************)
(* models.py: is_system and generate_form_field called on a loaded record. *)
(* A form is the dict form.fields, from names to controls.                 *)
(***************************************************************************)
\* cls.do_display_data()
do_display_data(cls) == cls # SystemField

HiddenInput == Widget("django.forms.widgets.HiddenInput", <<>>)

\* form.fields[name].widget = HiddenInput()
hide(form, name) ==
    LET control == DictGet(form, name, NoControl)
    IN  DictSet(form, name,
                [control EXCEPT !.kwargs = DictSet(@, "widget", HiddenInput)])

\* The first half of generate_form_field, the kind resolved and the field
\* built from value and the record's options: [shown, raised, field,
\* options]; shown says whether the kind is registered and displays data.
\* dict(value=value, ...) refuses a second value.
form_field(fields, self, value) ==
    LET field_type_cls == registry_get(fields, self.field_type)
        kw == get_form_field_kwargs(self)
        nf == NewField(field_type_cls, <<<<"value", value>>>> \o kw.kwargs)
    IN  IF field_type_cls = PyNone \/ ~do_display_data(field_type_cls)
        THEN [shown |-> FALSE, raised |-> "", field |-> PyNone, options |-> self.options]
        ELSE IF kw.raised # ""
        THEN [shown |-> TRUE, raised |-> kw.raised, field |-> PyNone,
              options |-> self.options]
        ELSE IF DictHas(kw.kwargs, "value")
        THEN [shown |-> TRUE, raised |-> "TypeError", field |-> PyNone,
              options |-> PyDict(kw.kwargs)]
        ELSE [shown |-> TRUE, raised |-> nf.raised, field |-> nf.field,
              options |-> PyDict(kw.kwargs)]

\* BaseFieldModel.generate_form_field, given built, what form_field made:
\* [raised, value, options, form]; value is the field returned (PyNone if
\* none), form the form's fields as the call leaves them.
generate_form_field(self, built, form) ==
    LET made == construct(built.field, <<>>)
    IN  IF ~built.shown
        THEN [raised |-> "", value |-> PyNone, options |-> built.options,
              form |-> IF ~self.visible /\ DictHas(form, self.name.v)
                       THEN hide(form, self.name.v) ELSE form]
        ELSE IF built.raised # ""
        THEN [raised |-> built.raised, value |-> PyNone, options |-> built.options,
              form |-> form]
        ELSE IF made.raised # ""
        THEN [raised |-> made.raised, value |-> PyNone, options |-> built.options,
              form |-> form]
        ELSE [raised |-> "", value |-> built.field, options |-> built.options,
              form |-> DictSet(form, self.name.v, made.control)]

\* The forms the field is added to: empty, or with a control f already.
Forms == {<<>>, <<<<"f", [cls |-> "django.forms.CharField", kwargs |-> <<>>]>>>>}

FormValues == {PyNone, PyStr("1")}

IsSystem ==
    /\ inst # PyNone
    /\ LET r == is_system(_fields, inst)
       IN  /\ inst' = [inst EXCEPT !.options = r.options]
           /\ bridge_last' = [op |-> "is_system", raised |-> r.raised,
                              value |-> PyBool(r.result), arg |-> PyNone,
                              before |-> inst.options]
    /\ UNCHANGED OtherBridgeVars

GenerateFormField ==
    /\ inst # PyNone
    /\ \E form \in Forms, value \in FormValues :
       \E built \in {form_field(_fields, inst, value)} :
       \E r \in {generate_form_field(inst, built, form)} :
           /\ inst' = [inst EXCEPT !.options = r.options]
           /\ bridge_last' = [op |-> "generate_form_field", raised |-> r.raised,
                              value |-> r.form, arg |-> value,
                              before |-> inst.options]
    /\ UNCHANGED OtherBridgeVars

(***************************************************************************)
(* Specifications.                                                         *)
(***************************************************************************)
\* In each specification the variables of the other parts keep their
\* initial values.
InitBool ==
    /\ pb_value \in BoolInputs
    /\ pb_code = NoCode
    /\ _fields = RegisteredAtImport
    /\ reg_last = NoCall
    /\ field = PyNone
    /\ opt_last = NoCall
    /\ table = <<>>
    /\ inst = PyNone
    /\ pc = "idle"
    /\ frame = PyNone
    /\ save_last = NoCall
    /\ quota = 0
    /\ clean = FALSE
    /\ concrete_classes = <<>>
    /\ bridge_last = NoCall

BoolNext == Coerce

SpecBool == InitBool /\ [][BoolNext]_vars

InitRegistry ==
    /\ pb_value = PyNone
    /\ pb_code = NoCode
    /\ _fields = RegisteredAtImport
    /\ reg_last = NoCall
    /\ field = PyNone
    /\ opt_last = NoCall
    /\ table = <<>>
    /\ inst = PyNone
    /\ pc = "idle"
    /\ frame = PyNone
    /\ save_last = NoCall
    /\ quota = 0
    /\ clean = FALSE
    /\ concrete_classes = <<>>
    /\ bridge_last = NoCall

RegNext == Register \/ Unregister

SpecRegistry == InitRegistry /\ [][RegNext]_vars

InitOptions ==
    /\ pb_value = PyNone
    /\ pb_code = NoCode
    /\ _fields = RegisteredAtImport
    /\ reg_last = NoCall
    /\ field \in OptionInstances
    /\ opt_last = NoCall
    /\ table = <<>>
    /\ inst = PyNone
    /\ pc = "idle"
    /\ frame = PyNone
    /\ save_last = NoCall
    /\ quota = 0
    /\ clean = FALSE
    /\ concrete_classes = <<>>
    /\ bridge_last = NoCall

OptNext == SetOptions

SpecOptions == InitOptions /\ [][OptNext]_vars

InitSave ==
    /\ pb_value = PyNone
    /\ pb_code = NoCode
    /\ _fields = RegisteredAtImport
    /\ reg_last = NoCall
    /\ field = PyNone
    /\ opt_last = NoCall
    /\ table = <<>>
    /\ inst = PyNone
    /\ pc = "idle"
    /\ frame = PyNone
    /\ save_last = NoCall
    /\ quota = MaxRecords
    /\ clean = FALSE
    /\ concrete_classes \in {<<>>, HostModels}
    /\ bridge_last = NoCall

Next ==
    \/ New
    \/ Load
    \/ EditName
    \/ EditFieldType
    \/ Drop
    \/ save_begin
    \/ save_collision_retry(SampledDraws)
    \/ save_collision_free
    \/ save_finish

Spec == InitSave /\ [][Next]_vars

\* A (tenant 1, Site) group in which the name code and all its suffixed
\* forms are taken: the rows that first saves of records labelled "Code"
\* leave.
FullGroup ==
    LET names == <<"code">> \o [n \in RandLow..RandHigh |-> "code" \o ToString(n)]
    IN  [i \in 1..Len(names) |->
            [id |-> i, company_site |-> 1, model |-> "Site", label |-> "Code",
             name |-> PyStr(names[i]),
             field_type |-> KeyOf(SingleLineTextField),
             options |-> PyDict(<<<<"name", PyStr(names[i])>>,
                                  <<"label", PyStr("Code")>>>>),
             system |-> FALSE, visible |-> names[i] = "code"]]

InitLoop ==
    /\ pb_value = PyNone
    /\ pb_code = NoCode
    /\ _fields = RegisteredAtImport
    /\ reg_last = NoCall
    /\ field = PyNone
    /\ opt_last = NoCall
    /\ table = FullGroup
    /\ inst = PyNone
    /\ pc = "idle"
    /\ frame = PyNone
    /\ save_last = NoCall
    /\ quota = 1
    /\ clean = FALSE
    /\ concrete_classes = HostModels
    /\ bridge_last = NoCall

LoopNext ==
    \/ New
    \/ Drop
    \/ save_begin
    \/ save_collision_retry(RandLow..RandHigh)
    \/ save_collision_free
    \/ save_finish

\* save() once called runs on: each of its steps is taken when it can be.
\* In the full group every value random.randint can give is taken, so no
\* assumption on the draws is needed.  The last conjunct is
\* WF_vars(save_finish) written out: save_finish can be taken exactly when
\* pc = "post", and taking it leaves "post".
LoopFairness ==
    /\ WF_vars(save_begin)
    /\ WF_vars(save_collision_retry(RandLow..RandHigh))
    /\ WF_vars(save_collision_free)
    /\ []<>(pc # "post")

SpecLoop == InitLoop /\ [][LoopNext]_vars /\ LoopFairness

InitBridge ==
    /\ pb_value = PyNone
    /\ pb_code = NoCode
    /\ _fields = RegisteredAtImport
    /\ reg_last = NoCall
    /\ field = PyNone
    /\ opt_last = NoCall
    /\ table = <<>>
    /\ inst \in BridgeRecords
    /\ pc = "ready"
    /\ frame = PyNone
    /\ save_last = NoCall
    /\ quota = 0
    /\ clean = FALSE
    /\ concrete_classes = <<>>
    /\ bridge_last = NoCall

BridgeNext == GetChoices \/ GetDisplay

SpecBridge == InitBridge /\ [][BridgeNext]_vars

ReadsNext == GetChoices \/ GetDisplay \/ IsSystem \/ GenerateFormField

SpecReads == InitBridge /\ [][ReadsNext]_vars

InitChoice ==
    /\ pb_value = PyNone
    /\ pb_code = NoCode
    /\ _fields = RegisteredAtImport
    /\ reg_last = NoCall
    /\ field \in ChoiceInstances
    /\ opt_last = NoCall
    /\ table = <<>>
    /\ inst = PyNone
    /\ pc = "idle"
    /\ frame = PyNone
    /\ save_last = NoCall
    /\ quota = 0
    /\ clean = FALSE
    /\ concrete_classes = <<>>
    /\ bridge_last = NoCall

ChoiceNext == GetInitialValue

SpecChoice == InitChoice /\ [][ChoiceNext]_vars

InitConstruct ==
    /\ pb_value = PyNone
    /\ pb_code = NoCode
    /\ _fields = RegisteredAtImport
    /\ reg_last = NoCall
    /\ field \in ConstructInstances
    /\ opt_last = NoCall
    /\ table = <<>>
    /\ inst = PyNone
    /\ pc = "idle"
    /\ frame = PyNone
    /\ save_last = NoCall
    /\ quota = 0
    /\ clean = FALSE
    /\ concrete_classes = <<>>
    /\ bridge_last = NoCall

ConstructNext == Construct

SpecConstruct == InitConstruct /\ [][ConstructNext]_vars

(***************************************************************************)
(* C1.  parse_bool_value returns exactly one code of 0..3 for every input: *)
(* 3 exactly for True, 'True', 'true', 3, '3'; 2 exactly for False,        *)
(* 'False', 'false', 2, '2'; 1 exactly for None, '', 1, '1'; 0 for         *)
(* everything else.  A literal matches only a value of its own type, so    *)
(* False gives 2 and True gives 3.                                         *)
(***************************************************************************)
YesLiterals   == {PyBool(TRUE), PyStr("True"), PyStr("true"), PyInt(3), PyStr("3")}
NoLiterals    == {PyBool(FALSE), PyStr("False"), PyStr("false"), PyInt(2), PyStr("2")}
UnsetLiterals == {PyNone, PyStr(""), PyInt(1), PyStr("1")}

C1_ParseBoolExact ==
    pb_code # NoCode =>
        /\ pb_code \in 0..3
        /\ pb_code = 3 <=> pb_value \in YesLiterals
        /\ pb_code = 2 <=> pb_value \in NoLiterals
        /\ pb_code = 1 <=> pb_value \in UnsetLiterals
        /\ pb_code = 0 <=> pb_value \notin (YesLiterals \cup NoLiterals \cup UnsetLiterals)

\* False has been coerced, to 2.
C1_Witness == pb_value = PyBool(FALSE) /\ pb_code = 2

(***************************************************************************)
(* C2.  After register(K), get(key(K)) is K; after unregister(key), get    *)
(* gives None, and unregistering an absent key leaves the registry as it   *)
(* was; get_all() and get_as_choices() list exactly the registered kinds,  *)
(* each once, in ascending key order, whatever the order of registration.  *)
(***************************************************************************)
\* Every key of the model, as Python's sorted() orders them.
KeysAscending ==
    <<"app.fields.ColorField",
       "dynamic_data.formfields.BaseDynamicFormField",
       "dynamic_data.formfields.BooleanField",
       "dynamic_data.formfields.ChoiceField",
       "dynamic_data.formfields.ComponentField",
       "dynamic_data.formfields.DateField",
       "dynamic_data.formfields.DateTimeField",
       "dynamic_data.formfields.EmailField",
       "dynamic_data.formfields.FloatField",
       "dynamic_data.formfields.IntegerField",
       "dynamic_data.formfields.MultiLineTextField",
       "dynamic_data.formfields.MultipleChoiceField",
       "dynamic_data.formfields.SingleLineTextField",
       "dynamic_data.formfields.SubtitleField",
       "dynamic_data.formfields.SystemField",
       "dynamic_data.formfields.TimeField",
       "sitehub.dynamic.formfields.SystemField">>

RegisteredAscending ==
    SelectSeq(KeysAscending, LAMBDA k : DictHas(_fields, k))

C2_RegistryRoundTrip ==
    LET all     == registry_get_all(_fields)
        choices == registry_get_as_choices(_fields)
    IN  /\ (reg_last.op = "register" /\ reg_last.raised = "") =>
               registry_get(_fields, KeyOf(reg_last.cls)) = reg_last.cls
        /\ reg_last.op = "unregister" =>
               /\ registry_get(_fields, reg_last.key) = PyNone
               /\ ~DictHas(reg_last.before, reg_last.key) => _fields = reg_last.before
        /\ [i \in 1..Len(all) |-> all[i].value] = RegisteredAscending
        /\ [i \in 1..Len(choices) |-> choices[i][1]] = RegisteredAscending
        /\ \A i \in 1..Len(all) :
               /\ all[i].name = get_display_label(registry_get(_fields, all[i].value))
               /\ choices[i] = <<all[i].value, all[i].name>>

\* A kind registered after a built-in one was unregistered: it is last in
\* the dict and first in key order.
C2_Witness ==
    /\ reg_last.op = "register"
    /\ reg_last.cls = ColorFieldAgain
    /\ ~DictHas(_fields, KeyOf(BooleanField))
    /\ _fields[Len(_fields)][1] = KeyOf(ColorField)
    /\ registry_get_all(_fields)[1].value = KeyOf(ColorField)

(***************************************************************************)
(* C3.  set_options validates every option it is given: a key outside the  *)
(* kind's resolved schema raises KeyError, a value that is not None and    *)
(* whose type is not among the option's accepted types raises TypeError,   *)
(* None is accepted for every known option, and after a call that did not  *)
(* raise every option given holds the value given.                         *)
(***************************************************************************)
\* The accepted types of the options, by kind, as the Meta classes declare them.
AcceptedTypes(cls) ==
    CASE cls = BooleanField  -> <<<<"help_text", {"str"}>>, <<"has_comment", {"bool"}>>,
                                  <<"not_avaliable", {"bool"}>>>>
      [] cls = ChoiceField   -> <<<<"help_text", {"str"}>>, <<"required", {"bool"}>>,
                                  <<"choices", {"list", "str"}>>>>
      [] cls = IntegerField  -> <<<<"help_text", {"str"}>>, <<"required", {"bool"}>>,
                                  <<"localize", {"bool"}>>, <<"max_value", {"int"}>>,
                                  <<"min_value", {"int"}>>, <<"slide", {"bool"}>>>>

C3_Refused(cls, item) ==
    \/ ~DictHas(AcceptedTypes(cls), item[1])
    \/ item[2] # PyNone /\ item[2].t \notin DictGet(AcceptedTypes(cls), item[1], {})

C3_SetOptionsValidates ==
    opt_last.op = "set_options" =>
        LET kw  == opt_last.kwargs
            bad == {i \in 1..Len(kw) : C3_Refused(field.cls, kw[i])}
            first == CHOOSE i \in bad : \A j \in bad : i <= j
        IN  /\ bad = {} <=> opt_last.raised = ""
            /\ bad # {} =>
                  opt_last.raised = IF DictHas(AcceptedTypes(field.cls), kw[first][1])
                                    THEN "TypeError" ELSE "KeyError"
            /\ bad = {} =>
                  \A i \in 1..Len(kw) :
                      DictGet(field.options, kw[i][1], PyNone).value = kw[i][2]

\* An option was set to None and another to a value of its type, and the
\* call did not raise.
C3_Witness ==
    /\ opt_last.op = "set_options"
    /\ opt_last.raised = ""
    /\ field.cls = IntegerField
    /\ opt_last.kwargs = <<<<"required", PyNone>>, <<"max_value", PyInt(5)>>>>
    /\ DictGet(field.options, "max_value", PyNone).value = PyInt(5)

(***************************************************************************)
(* What the claims about save() speak of.                                  *)
(***************************************************************************)
SaveReturned == save_last.op = "save" /\ save_last.raised = ""

SavedRow == table[save_last.id]

\* The other rows of the (tenant, model) group of the row last saved.
GroupOfSaved ==
    {j \in 1..Len(table) :
        /\ j # save_last.id
        /\ table[j].company_site = SavedRow.company_site
        /\ table[j].model = SavedRow.model}

\* The model class the row belongs to natively has an attribute of its name.
NativeCollision(row) ==
    \E i \in 1..Len(HostModels) :
        HostModels[i].name = row.model /\ row.name.v \in HostModels[i].attrs

\* The kind registered under the key says of itself that it is system-only.
KindIsSystem(key) ==
    /\ registry_get(_fields, key) # PyNone
    /\ HasIsSystem(registry_get(_fields, key))

(***************************************************************************)
(* C4.  A first save() gives the new row a name that no other row of its   *)
(* (tenant, model) group has; if the base name is taken in the group, the  *)
(* stored name is the base name followed by an integer of 1..99.           *)
(***************************************************************************)
C4_NameCollisionResolved ==
    (SaveReturned /\ save_last.first) =>
        /\ \A j \in GroupOfSaved : table[j].name # SavedRow.name
        /\ IF \E j \in GroupOfSaved : table[j].name = save_last.base
           THEN \E n \in 1..99 : SavedRow.name = PyStr(save_last.base.v \o ToString(n))
           ELSE SavedRow.name = save_last.base

\* A second record labelled "Code" in a group was stored as code99.
C4_Witness ==
    /\ SaveReturned
    /\ save_last.first
    /\ save_last.looped
    /\ SavedRow.label = "Code"
    /\ SavedRow.name = PyStr("code99")
    /\ \E j \in GroupOfSaved : table[j].name = PyStr("code")

(***************************************************************************)
(* C5.  After save() of a record whose name is an attribute its model      *)
(* class natively defines, the stored row has the System kind as its       *)
(* field kind and {} as its options.                                       *)
(***************************************************************************)
C5_NativeAttributeOverride ==
    (SaveReturned /\ NativeCollision(SavedRow)) =>
        /\ SavedRow.field_type = KeyOf(SystemField)
        /\ SavedRow.options = PyDict(<<>>)

(***************************************************************************)
(* C6.  The collision loop of save() is bounded: save() of a new record    *)
(* always ends, by returning or by raising, also when the base name and    *)
(* every suffixed name of the group are taken.                             *)
(***************************************************************************)
C6_SaveTerminates == (pc = "loop") ~> (pc = "ready")

(***************************************************************************)
(* C7.  save() of a persisted instance with a non-empty name leaves the    *)
(* name as it is, in memory and in the row, and does not enter the         *)
(* collision loop, whether or not another row of the group has the name.   *)
(***************************************************************************)
C7_ResaveKeepsName ==
    [][(/\ pc \in {"ready", "post"}
        /\ pc' \notin {pc, "idle"}
        /\ inst.id # 0
        /\ inst.name \notin {PyNone, PyStr("")})
       => /\ pc' # "loop"
          /\ inst'.name = inst.name
          /\ (table[inst.id].name = inst.name
                 => table'[inst.id].name = table[inst.id].name)]_vars

\* A persisted instance was saved again untouched, while another row of
\* its group has its name.
C7_Witness ==
    /\ SaveReturned
    /\ ~save_last.first
    /\ save_last.repeat
    /\ ~save_last.looped
    /\ \E j \in GroupOfSaved : table[j].name = SavedRow.name

(***************************************************************************)
(* C8.  After every save() the stored system flag is true exactly when     *)
(* the name is a native attribute of the record's model or the kind        *)
(* registered under its field type is system-only.                         *)
(***************************************************************************)
C8_SystemFlagRecomputed ==
    SaveReturned =>
        (SavedRow.system <=>
            (NativeCollision(SavedRow) \/ KindIsSystem(SavedRow.field_type)))

(***************************************************************************)
(* C9.  get_choices() and get_display(value) never raise: whatever the     *)
(* field type, the option bag and the stored value, get_choices() returns  *)
(* a list and get_display returns a display value or None.                 *)
(***************************************************************************)
C9_BridgeReadsNeverRaise ==
    bridge_last.op \in {"get_choices", "get_display"} =>
        /\ bridge_last.raised = ""
        /\ bridge_last.op = "get_choices" => bridge_last.value.t = "list"

(***************************************************************************)
(* C10.  ChoiceField.get_initial_value, for every list of choices and      *)
(* every value, returns the value if it is among the choices, else         *)
(* choices[i] if the value parses as the integer i, else None; it returns  *)
(* one of the three also for an i that is no position of the list.         *)
(***************************************************************************)
C10_Choices == get_choices(field, TRUE).value.v

C10_Outcomes == {field.value, PyNone} \cup {C10_Choices[i] : i \in 1..Len(C10_Choices)}

C10_ChoiceInitialValue ==
    opt_last.op = "get_initial_value" =>
        /\ opt_last.raised = ""
        /\ opt_last.value \in C10_Outcomes
        /\ IF \E i \in 1..Len(C10_Choices) : PyEq(C10_Choices[i], field.value)
           THEN opt_last.value = field.value
           ELSE IF py_int(field.value).raised # ""
           THEN opt_last.value = PyNone
           ELSE LET i == py_int(field.value).value
                IN  (0 <= i /\ i < Len(C10_Choices)) => opt_last.value = C10_Choices[i + 1]

(***************************************************************************)
(* C11.  construct applies the caller's overrides last: for every kind    *)
(* and every key of the overrides the control is instantiated with the     *)
(* caller's value for the key, required alone being forced to False, and   *)
(* only for the kinds that manage required themselves (BooleanField,       *)
(* whose Meta excludes it).                                                *)
(***************************************************************************)
ManagesRequired(cls) == "required" \in OwnMeta(cls)._exclude

C11_CallerWins ==
    (opt_last.op = "construct" /\ opt_last.raised = "") =>
        \A i \in 1..Len(opt_last.kwargs) :
            LET key == opt_last.kwargs[i][1]
                got == DictGet(opt_last.control.kwargs, key, PyNone)
            IN  /\ DictHas(opt_last.control.kwargs, key)
                /\ IF key = "required" /\ ManagesRequired(field.cls)
                   THEN got = PyBool(FALSE)
                   ELSE got = opt_last.kwargs[i][2]

(***************************************************************************)
(* C12.  get_choices, get_display, is_system and generate_form_field       *)
(* leave the record's option bag unchanged: after a call the bag has       *)
(* exactly the keys and values it had before, and so no name or label      *)
(* that a later save() would persist.                                      *)
(***************************************************************************)
SameBag(a, b) ==
    IF a.t = "dict" /\ b.t = "dict" THEN DictSame(a.v, b.v) ELSE a = b

C12_ReadsKeepOptions ==
    bridge_last.op # "none" => SameBag(inst.options, bridge_last.before)

=============================================================================
